---- MODULE Spec2Model ----
(***************************************************************************)
(* Model of the synchronization pass of post_catcher:                     *)
(*   bot/background_jobs.py  handle_updates_for_entities                  *)
(*   bot/utils/func.py       Function, Function.Sub                       *)
(* One action per suspension point (provider RPC, key/value storage call, *)
(* relational session call) of the pass.  Provider answers are inputs     *)
(* drawn from small sets.                                                 *)
(***************************************************************************)
EXTENDS Integers, Sequences, FiniteSets, Bags, TLC

VARIABLES
    dbChannels,   \* committed MonitoringChannel rows
    dbPosts,      \* committed Post rows (a bag: the table has a surrogate key)
    storage,      \* RedisStorage: key -> value, absent keys are not in DOMAIN
    pass,         \* per running pass: the locals of handle_updates_for_entities
    passes,       \* number of passes started so far
    env           \* the deployment: env.overlap is TRUE when the caller may start
                  \* a pass while another one is running, env.passes is the number
                  \* of passes watched, env.msgs, env.pts and env.scenarios are what
                  \* the provider has to answer with

vars == <<dbChannels, dbPosts, storage, pass, passes, env>>

----------------------------------------------------------------------------
(* Bounds of the model *)

MaxPasses == 2
MaxEntities == 1
MaxPts == 3
MaxMsgId == 2
MaxNew == 1
MaxOther == 1
MaxHist == 2
MaxListEntities == 2
MaxListPasses == 1
MaxOverlapPts == 2

(* Program constants *)

DifferenceLimit == 50
ChatHistoryLimit == 50
RecoveryHistoryLimit == 100
MAX_MESSAGE_ID == 2147483647
ResolvedChatId == 12345

\* the calls of handle_updates_for_entities that may be in progress.  The pass is
\* modelled as the operation its caller starts: the entry module registers a job
\* under the name handling_difference_update_chanel, which bot/background_jobs.py
\* does not define, and the scheduler it hands the job to is not among the
\* sources, so when calls are started is left to env.overlap
Procs == {1, 2}

----------------------------------------------------------------------------
(* Identifiers *)

DirectChannel == "@news"
DirectGroup == "-100777"
InviteToken == "AbCdEf"

StrOfId(n) == ToString(n)

Usernames == {DirectChannel, DirectGroup, InviteToken, StrOfId(ResolvedChatId)}

\* str.startswith on the identifiers of the model: the first character
FirstChar(u) ==
    CASE u = DirectChannel -> "@"
      [] u = DirectGroup -> "-"
      [] u = InviteToken -> "A"
      [] OTHER -> "1"

IsDirectHandle(u) == FirstChar(u) = "@" \/ FirstChar(u) = "-"

\* keys of the key/value store
PtsKey(u) == u
ChatKey(u) == "chat_last_max_id:" \o u
SubKey(u) == u \o ":subscribed"

CursorKeys == {PtsKey(u) : u \in Usernames} \cup {ChatKey(u) : u \in Usernames}

StorageHas(k) == k \in DOMAIN storage
StorageSet(s, k, v) == [x \in DOMAIN s \cup {k} |-> IF x = k THEN v ELSE s[x]]

----------------------------------------------------------------------------
(* Messages *)

NoneText == <<"None">>
\* the characters str.strip() removes, among the ASCII characters the texts of
\* the model are written in: space, \t, \n, \r, \f, and the control characters
\* 0x0B (vertical tab), 0x1C, 0x1D, 0x1E, 0x1F, written here as themselves
Whitespace == {" ", "\t", "\n", "\r", "\f", "", "", "", "", ""}

RECURSIVE LStrip(_)
LStrip(t) ==
    IF t = <<>> THEN <<>>
    ELSE IF Head(t) \in Whitespace THEN LStrip(Tail(t)) ELSE t

RECURSIVE RStrip(_)
RStrip(t) ==
    IF t = <<>> THEN <<>>
    ELSE IF t[Len(t)] \in Whitespace THEN RStrip(SubSeq(t, 1, Len(t) - 1)) ELSE t

\* a check of the text as it is, untrimmed
StripNothing(t) == t

\* str.strip()
Strip(t) == RStrip(LStrip(t))

\* update.message or ""
MsgText(m) == IF m.message = NoneText \/ m.message = <<>> THEN <<>> ELSE m.message

Message(i, t) == [cls |-> "Message", id |-> i, message |-> t]
MessageService(i) == [cls |-> "MessageService", id |-> i]

IsMessage(m) == m.cls = "Message"

MsgPool ==
    {Message(i, <<"a">>) : i \in 1..MaxMsgId}
        \cup {Message(MaxMsgId, <<" ">>), Message(1, NoneText), MessageService(MaxMsgId)}

SeqsUpTo(S, n) == UNION {[1..k -> S] : k \in 0..n}

Post(m, u) == [message_id |-> m.id, channel_username |-> u, content |-> MsgText(m)]

----------------------------------------------------------------------------
(* Entities the provider resolves an identifier to *)

NoEntity == [cls |-> "None"]

Channel(i, h, b, m) ==
    [cls |-> "Channel", id |-> i, access_hash |-> h, broadcast |-> b, megagroup |-> m,
     title |-> "T"]
Chat(i) == [cls |-> "Chat", id |-> i, title |-> "T"]
ChatForbidden(i) == [cls |-> "ChatForbidden", id |-> i, title |-> "T"]

\* access_hash 0 stands for a missing access hash
WorldEntities(u) ==
    CASE u = DirectChannel -> {Channel(1, 7, TRUE, FALSE), Channel(1, 0, TRUE, FALSE)}
      [] u = DirectGroup -> {Channel(2, 7, FALSE, TRUE), ChatForbidden(2)}
      [] u = StrOfId(ResolvedChatId) -> {Chat(ResolvedChatId)}
      [] OTHER -> {}

\* getattr(obj, name, False) for the two flags the pass reads
GetFlag(e, name) == IF name \in DOMAIN e THEN e[name] ELSE FALSE

----------------------------------------------------------------------------
(* The locals of one pass *)

NoDiff == [kind |-> "None"]

IdlePass ==
    [pc |-> "idle", channels |-> <<>>, idx |-> 0, subscribed |-> FALSE,
     entity |-> NoEntity, pts |-> 0, diff |-> NoDiff, history |-> <<>>,
     new_pts |-> 0, last_max_id |-> 0, current_max_id |-> 0, updates |-> <<>>, pending |-> <<>>,
     trace |-> <<>>, failed |-> {}, snap |-> [storage |-> <<>>, pending |-> <<>>],
     via |-> "", sync |-> "", fin |-> "",
     outcomes |-> <<>>, held |-> <<>>, commits |-> 0, lost |-> <<>>,
     todo |-> <<>>, new_posts |-> <<>>]

\* monitored lists of at most n rows: usernames are unique
ListsUpTo(n) ==
    {l \in SeqsUpTo({DirectChannel, DirectGroup, InviteToken}, n) :
        /\ Len(l) >= 1
        /\ \A i, j \in 1..Len(l) : i # j => l[i] # l[j]}

InitialLists == ListsUpTo(MaxEntities)

Row(l, i) == [id |-> i, username |-> l[i], title |-> ""]

Init ==
    /\ \E l \in InitialLists : dbChannels = [i \in 1..Len(l) |-> Row(l, i)]
    /\ dbPosts = EmptyBag
    /\ storage = <<>>
    /\ pass = [p \in Procs |-> IdlePass]
    /\ passes = 0
    /\ env = [overlap |-> FALSE, passes |-> MaxPasses, msgs |-> MsgPool, pts |-> MaxPts,
              scenarios |-> TRUE]

\* a monitored list of several entities, watched for one pass
InitList ==
    /\ \E l \in ListsUpTo(MaxListEntities) :
          /\ Len(l) >= 2
          /\ dbChannels = [i \in 1..Len(l) |-> Row(l, i)]
    /\ dbPosts = EmptyBag
    /\ storage = <<>>
    /\ pass = [p \in Procs |-> IdlePass]
    /\ passes = 0
    /\ env = [overlap |-> FALSE, passes |-> MaxListPasses, msgs |-> MsgPool,
              pts |-> MaxPts, scenarios |-> TRUE]

\* a caller that starts a pass while the previous one is still running; the
\* broadcast channel holds one message, a chat or group two
OverlapPool(u) ==
    IF u = DirectChannel THEN {Message(1, <<"a">>)}
    ELSE {Message(1, <<"a">>), Message(2, <<"a">>)}

\* the store an earlier pass left: the membership of the broadcast channel is
\* cached, no cursor is stored yet
OverlapStorage(u) == IF u = DirectChannel THEN [k \in {SubKey(u)} |-> TRUE] ELSE <<>>

InitOverlap ==
    /\ \E l \in InitialLists :
          /\ dbChannels = [i \in 1..Len(l) |-> Row(l, i)]
          /\ env = [overlap |-> TRUE, passes |-> MaxPasses, msgs |-> OverlapPool(l[1]),
                    pts |-> MaxOverlapPts, scenarios |-> FALSE]
          /\ storage = OverlapStorage(l[1])
    /\ dbPosts = EmptyBag
    /\ pass = [p \in Procs |-> IdlePass]
    /\ passes = 0

P(p) == pass[p]
Cur(p) == pass[p].channels[pass[p].idx]
SetPass(p, r) == pass' = [pass EXCEPT ![p] = r]

\* a loop that takes every entity for the last one
LoopDoneAlways(r) == TRUE

\* a loop body without the try/except: an exception ends the pass
ContinueAbort(r, outcome) ==
    IF outcome = "exception"
    THEN [r EXCEPT !.idx = @ + 1, !.pc = "idle", !.fin = "aborted",
                   !.outcomes = Append(@, outcome)]
    ELSE [r EXCEPT !.idx = @ + 1,
                   !.pc = IF r.idx + 1 > Len(r.channels) THEN "commit" ELSE "entity",
                   !.fin = outcome,
                   !.outcomes = Append(@, outcome)]

\* the for loop has no entity left after the current one
LoopDone(r) == r.idx + 1 > Len(r.channels)

\* `continue`: on to the next entity, or to the commit after the last one
Continue(r, outcome) ==
    [r EXCEPT !.idx = @ + 1,
              !.pc = IF LoopDone(r) THEN "commit" ELSE "entity",
              !.fin = outcome,
              !.outcomes = Append(@, outcome)]

Log(r, ev) == [r EXCEPT !.trace = Append(@, ev)]
Rpc(name) == [op |-> "rpc", req |-> name]
RpcAnswer(name, answer) == [op |-> "rpc", req |-> name, answer |-> answer]
Failed(r, name) == [r EXCEPT !.failed = @ \cup {name}]

----------------------------------------------------------------------------
(* handle_updates_for_entities: session and channel list *)

\* a MonitoringChannel object of the session: its attributes, the mark of
\* session.delete, and the values it was loaded with (an attribute is written back
\* at the commit only when the pass has given it another value)
SessionRow(c) ==
    [id |-> c.id, username |-> c.username, title |-> c.title, deleted |-> FALSE,
     loaded |-> [username |-> c.username, title |-> c.title]]

StartPass(p) ==
    /\ P(p).pc = "idle"
    /\ passes < env.passes
    /\ p = 1 \/ (env.overlap /\ passes >= 1)
    /\ passes' = passes + 1
    /\ LET channels == [i \in 1..Len(dbChannels) |-> SessionRow(dbChannels[i])]
       IN IF channels = <<>>
          THEN SetPass(p, [IdlePass EXCEPT !.fin = "no_entities", !.lost = P(p).lost])
          ELSE SetPass(p, [IdlePass EXCEPT !.pc = "entity", !.channels = channels, !.idx = 1,
                                           !.lost = P(p).lost])
    /\ UNCHANGED <<dbChannels, dbPosts, storage, env>>

----------------------------------------------------------------------------
(* Function.Sub *)

\* an ensureSubscribed that never trusts the cached flag
NeverCached(u) == FALSE

\* is_subscribed_cached: the value storage.get answers for the flag is truthy
IsSubscribedCached(u) == StorageHas(SubKey(u)) /\ storage[SubKey(u)] = TRUE

\* a pass that goes on to resolve the entity whatever ensureSubscribed answered
AfterSubscribeNoSkip(r) == [r EXCEPT !.pc = "get_entity"]

\* `if not subscribed: continue`, else on to safe_get_entity
AfterSubscribe(r) ==
    IF ~r.subscribed THEN Continue(r, "not_subscribed") ELSE [r EXCEPT !.pc = "get_entity"]

\* first statement of subscribe_to_channel / subscribe_by_invite_hash:
\* the cached flag short-circuits
SubGetFlag(p) ==
    /\ P(p).pc = "entity"
    /\ LET u == Cur(p).username
           r0 == [P(p) EXCEPT !.trace = <<[op |-> "get", key |-> SubKey(u)]>>,
                              !.failed = {},
                              !.snap = [storage |-> storage, pending |-> P(p).pending],
                              !.entity = NoEntity, !.pts = 0, !.diff = NoDiff,
                              !.history = <<>>, !.new_pts = 0, !.last_max_id = 0,
                              !.current_max_id = 0,
                              !.updates = <<>>, !.via = "", !.sync = "", !.fin = "",
                              !.subscribed = FALSE, !.held = <<>>,
                              !.todo = <<>>, !.new_posts = <<>>]
       IN IF IsSubscribedCached(u)
          THEN IF IsDirectHandle(u)
               THEN SetPass(p, AfterSubscribe([r0 EXCEPT !.subscribed = TRUE]))
               ELSE SetPass(p, [r0 EXCEPT !.subscribed = TRUE, !.pc = "check_invite"])
          ELSE SetPass(p, [r0 EXCEPT !.pc = IF IsDirectHandle(u) THEN "is_subscribed"
                                            ELSE "import_invite"])
    /\ UNCHANGED <<dbChannels, dbPosts, storage, passes, env>>

\* is_subscribed: every exception of GetParticipantRequest answers False
IsSubscribedOutcomes == {"ok", "USER_NOT_PARTICIPANT", "error"}

IsSubscribed(p) ==
    /\ P(p).pc = "is_subscribed"
    /\ \E o \in IsSubscribedOutcomes :
         LET r1 == Log(P(p), Rpc("GetParticipantRequest"))
         IN IF o = "ok"
            THEN SetPass(p, [r1 EXCEPT !.pc = "sub_cache"])
            ELSE SetPass(p, [(IF o = "error" THEN Failed(r1, "GetParticipantRequest") ELSE r1)
                                EXCEPT !.pc = "join"])
    /\ UNCHANGED <<dbChannels, dbPosts, storage, passes, env>>

SetEv(k, v, by) == [op |-> "set", key |-> k, val |-> v, by |-> by]

SubCacheFlag(p) ==
    /\ P(p).pc = "sub_cache"
    /\ LET k == SubKey(Cur(p).username)
       IN /\ storage' = StorageSet(storage, k, TRUE)
          /\ SetPass(p, AfterSubscribe([Log(P(p), SetEv(k, TRUE, "subscribe_to_channel"))
                                           EXCEPT !.subscribed = TRUE]))
    /\ UNCHANGED <<dbChannels, dbPosts, passes, env>>

JoinOutcomes ==
    {"ok", "UserAlreadyParticipantError", "InviteHashExpiredError", "ChannelPrivateError",
     "error"}

\* a join that takes an unclassified provider error for success
JoinResultLenient(o) == o \in {"ok", "error"}

\* what subscribe_to_channel returns after JoinChannelRequest
JoinResult(o) == o = "ok"

JoinChannel(p) ==
    /\ P(p).pc = "join"
    /\ \E o \in JoinOutcomes :
         LET r1 == Log(P(p), RpcAnswer("JoinChannelRequest", o))
             r2 == IF o = "error" THEN Failed(r1, "JoinChannelRequest") ELSE r1
         IN SetPass(p, AfterSubscribe([r2 EXCEPT !.subscribed = JoinResult(o)]))
    /\ UNCHANGED <<dbChannels, dbPosts, storage, passes, env>>

ImportOutcomes == {"ok", "UserAlreadyParticipantError", "InviteHashExpiredError", "error"}

\* what subscribe_by_invite_hash returns after ImportChatInviteRequest
ImportResult(o) == o \in {"ok", "UserAlreadyParticipantError"}

ImportInvite(p) ==
    /\ P(p).pc = "import_invite"
    /\ \E o \in ImportOutcomes :
         LET r1 == Log(P(p), RpcAnswer("ImportChatInviteRequest", o))
             r2 == IF o = "error" THEN Failed(r1, "ImportChatInviteRequest") ELSE r1
         IN IF ImportResult(o)
            THEN SetPass(p, [r2 EXCEPT !.pc = "invite_cache"])
            ELSE SetPass(p, [r2 EXCEPT !.subscribed = FALSE, !.pc = "check_invite"])
    /\ UNCHANGED <<dbChannels, dbPosts, storage, passes, env>>

InviteCacheFlag(p) ==
    /\ P(p).pc = "invite_cache"
    /\ LET k == SubKey(Cur(p).username)
       IN /\ storage' = StorageSet(storage, k, TRUE)
          /\ SetPass(p, [Log(P(p), SetEv(k, TRUE, "subscribe_by_invite_hash"))
                            EXCEPT !.subscribed = TRUE, !.pc = "check_invite"])
    /\ UNCHANGED <<dbChannels, dbPosts, passes, env>>

\* answers of CheckChatInviteRequest; the last two are raised by the request
CheckInviteAnswers ==
    {[cls |-> "ChatInvite"],
     [cls |-> "ChatInviteAlready", chat_id |-> ResolvedChatId],
     [cls |-> "ChatInvitePeek", chat_id |-> ResolvedChatId],
     [cls |-> "InviteHashExpiredError"],
     [cls |-> "error"]}

\* the request is awaited before the try block of fetch_id_from_chat_invite_request:
\* whatever it raises leaves the function
CheckInviteRaises(a) == a.cls \in {"InviteHashExpiredError", "error"}

\* fetch_id_from_chat_invite_request answering None for ChatInviteAlready
FetchIdAlreadyNone(a) ==
    IF a.cls \in {"ChatInvite", "ChatInviteAlready"} THEN ""
    ELSE IF a.cls = "ChatInvitePeek" THEN StrOfId(a.chat_id)
    ELSE ""

\* the value fetch_id_from_chat_invite_request returns; "" stands for None
FetchIdResult(a) ==
    IF a.cls = "ChatInvite" THEN ""
    ELSE IF a.cls \in {"ChatInviteAlready", "ChatInvitePeek"} THEN StrOfId(a.chat_id)
    ELSE ""

CheckInvite(p) ==
    /\ P(p).pc = "check_invite"
    /\ \E a \in CheckInviteAnswers :
         LET r1 == Log(P(p), RpcAnswer("CheckChatInviteRequest", a.cls))
             new_username == FetchIdResult(a)
         IN IF CheckInviteRaises(a)
            THEN SetPass(p, Continue(
                     IF a.cls = "error" THEN Failed(r1, "CheckChatInviteRequest") ELSE r1,
                     "exception"))
            ELSE IF new_username # ""
            THEN SetPass(p, AfterSubscribe(
                     [r1 EXCEPT !.channels[r1.idx].username = new_username]))
            ELSE SetPass(p, [r1 EXCEPT !.pc = "session_delete"])
    /\ UNCHANGED <<dbChannels, dbPosts, storage, passes, env>>

\* await session.delete(channel), then `continue`: the row is marked in the
\* session, the table is touched at the commit
SessionDelete(p) ==
    /\ P(p).pc = "session_delete"
    /\ SetPass(p, Continue([P(p) EXCEPT !.channels[P(p).idx].deleted = TRUE], "deleted"))
    /\ UNCHANGED <<dbChannels, dbPosts, storage, passes, env>>

----------------------------------------------------------------------------
(* Function.safe_get_entity and the choice of strategy *)

\* a choice by the class of the entity: every Channel object, megagroups included
UseChannelSyncAnyChannel(e) == e.cls = "Channel"

UseChannelSync(e) == GetFlag(e, "broadcast") /\ ~GetFlag(e, "megagroup")

\* the guards of get_difference_update_channel before its first await
ChannelGuardsPass(e) == e.cls # "None" /\ e.access_hash # 0

\* the guards of get_difference_update_chat before its first await
ChatGuardsPass(e) ==
    /\ e.cls # "None"
    /\ e.cls # "ChatForbidden"
    /\ e.id # 0
    /\ (GetFlag(e, "megagroup") => e.access_hash # 0)

\* lines 75-101 of the pass once an entity is at hand
Resolved(r, e) ==
    LET r1 == [r EXCEPT !.entity = e,
                        !.channels[r.idx].title = IF @ = "" THEN e.title ELSE @]
    IN IF UseChannelSync(e)
       THEN IF ChannelGuardsPass(e)
            THEN [r1 EXCEPT !.via = "channel", !.pc = "channel_get_pts"]
            ELSE Continue([r1 EXCEPT !.via = "channel"], "no_updates")
       ELSE IF ChatGuardsPass(e)
            THEN [r1 EXCEPT !.via = "chat", !.pc = "chat_get_max_id"]
            ELSE Continue([r1 EXCEPT !.via = "chat"], "no_updates")

GetEntityEv(u, o) == [op |-> "rpc", req |-> "get_entity", peer |-> u, answer |-> o]

GetEntity(p) ==
    /\ P(p).pc = "get_entity"
    /\ LET u == Cur(p).username
       IN \/ \E e \in WorldEntities(u) :
               SetPass(p, Resolved(Log(P(p), GetEntityEv(u, "entity")), e))
          \/ SetPass(p, [Log(P(p), GetEntityEv(u, "ValueError")) EXCEPT !.pc = "get_dialogs"])
          \/ SetPass(p, Continue(Failed(Log(P(p), GetEntityEv(u, "error")), "get_entity"),
                                 "exception"))
    /\ UNCHANGED <<dbChannels, dbPosts, storage, passes, env>>

GetDialogs(p) ==
    /\ P(p).pc = "get_dialogs"
    /\ \/ SetPass(p, [Log(P(p), Rpc("get_dialogs")) EXCEPT !.pc = "catch_up"])
       \/ SetPass(p, Continue(Failed(Log(P(p), Rpc("get_dialogs")), "get_dialogs"),
                              "not_found"))
    /\ UNCHANGED <<dbChannels, dbPosts, storage, passes, env>>

CatchUp(p) ==
    /\ P(p).pc = "catch_up"
    /\ \/ SetPass(p, [Log(P(p), Rpc("catch_up")) EXCEPT !.pc = "get_entity_retry"])
       \/ SetPass(p, Continue(Failed(Log(P(p), Rpc("catch_up")), "catch_up"), "not_found"))
    /\ UNCHANGED <<dbChannels, dbPosts, storage, passes, env>>

GetEntityRetry(p) ==
    /\ P(p).pc = "get_entity_retry"
    /\ LET u == Cur(p).username
       IN \/ \E e \in WorldEntities(u) :
               SetPass(p, Resolved(Log(P(p), GetEntityEv(u, "entity")), e))
          \/ SetPass(p, Continue(Log(P(p), GetEntityEv(u, "ValueError")), "not_found"))
          \/ SetPass(p, Continue(Failed(Log(P(p), GetEntityEv(u, "error")), "get_entity"),
                                 "not_found"))
    /\ UNCHANGED <<dbChannels, dbPosts, storage, passes, env>>

----------------------------------------------------------------------------
(* Provider answers to the difference and history requests *)

Edit(m) == [cls |-> "UpdateEditChannelMessage", message |-> m]

\* an update record whose message attribute is None
NoMessage == [cls |-> "None"]

OtherPool ==
    {Edit(Message(1, <<"a">>)), Edit(MessageService(MaxMsgId)), Edit(NoMessage),
     [cls |-> "UpdateDeleteChannelMessages"]}

\* the messages and the update records the provider has to answer with
Msgs == env.msgs
Scenarios(S) == IF env.scenarios THEN S ELSE {}
Others == Scenarios(OtherPool)
Counters == 1..env.pts

DifferenceAnswers ==
    {[kind |-> "ChannelDifferenceEmpty"], [kind |-> "ChannelDifferenceTooLong"],
     [kind |-> "error"]}
        \cup [kind : {"ChannelDifference"}, new_messages : SeqsUpTo(Msgs, MaxNew),
              other_updates : SeqsUpTo(Others, MaxOther), pts : Counters]

\* a channel holding one message more than the recovery window; only the first
\* MaxMsgId of them carry text
LongHistory ==
    [i \in 1..(RecoveryHistoryLimit + 1) |->
        Message(i, IF i <= MaxMsgId THEN <<"a">> ELSE <<>>)]

Take(s, n) == SubSeq(s, 1, IF Len(s) < n THEN Len(s) ELSE n)

\* the provider returns at most `limit` messages of what the peer holds
ProviderHistory(req, held) == Take(held, req.limit)

\* GetHistoryRequest of _handle_too_long_state
RecoveryHistoryRequest ==
    [op |-> "rpc", req |-> "GetHistoryRequest", limit |-> RecoveryHistoryLimit,
     offset_id |-> 0, max_id |-> 0, min_id |-> 0, add_offset |-> 0]

\* a poll that asks for the history from its start whatever the cursor is
ChatHistoryRequestFromStart(last_max_id) ==
    [op |-> "rpc", req |-> "GetHistoryRequest", limit |-> ChatHistoryLimit,
     offset_id |-> 0, max_id |-> 0, min_id |-> 0, add_offset |-> 0]

\* GetHistoryRequest of get_difference_update_chat
ChatHistoryRequest(last_max_id) ==
    [op |-> "rpc", req |-> "GetHistoryRequest", limit |-> ChatHistoryLimit,
     offset_id |-> 0, max_id |-> 0, min_id |-> last_max_id, add_offset |-> 0]

\* GetChannelDifferenceRequest of get_difference_update_channel
DifferenceRequest(pts) ==
    [op |-> "rpc", req |-> "GetChannelDifferenceRequest", pts |-> pts,
     limit |-> DifferenceLimit, range |-> <<0, MAX_MESSAGE_ID>>, force |-> TRUE]

FullChannelEv == Rpc("GetFullChannelRequest")

\* the updates the loop over `updates` issues a duplicate query for: the others
\* are passed over without an await (isinstance test, blank text)
IsCandidate(m) == IsMessage(m) /\ Strip(MsgText(m)) # <<>>
Candidates(updates) == SelectSeq(updates, IsCandidate)

\* the list a sync function returns, `if not updates: continue`, and the loop over
\* the updates up to its first duplicate query; a list without a candidate leaves
\* new_posts empty and the entity is done
Return(r, updates, sync) ==
    LET r1 == [r EXCEPT !.updates = updates, !.sync = sync]
    IN IF updates = <<>> THEN Continue(r1, "no_updates")
       ELSE IF Candidates(updates) = <<>> THEN Continue(r1, "nothing_new")
       ELSE [r1 EXCEPT !.todo = Candidates(updates), !.new_posts = <<>>, !.pc = "dedup"]

----------------------------------------------------------------------------
(* Function.get_difference_update_channel *)

ChannelGetPts(p) ==
    /\ P(p).pc = "channel_get_pts"
    /\ LET k == PtsKey(Cur(p).username)
           r1 == Log(P(p), [op |-> "get", key |-> k])
       IN IF ~StorageHas(k)
          THEN SetPass(p, [r1 EXCEPT !.pc = "channel_full"])
          ELSE SetPass(p, [r1 EXCEPT !.pts = storage[k], !.pc = "channel_difference"])
    /\ UNCHANGED <<dbChannels, dbPosts, storage, passes, env>>

ChannelGetFull(p) ==
    /\ P(p).pc = "channel_full"
    /\ \/ \E pts \in Counters :
            SetPass(p, [Log(P(p), FullChannelEv) EXCEPT !.pts = pts, !.pc = "channel_init_pts"])
       \/ SetPass(p, Return(Failed(Log(P(p), FullChannelEv), "GetFullChannelRequest"),
                            <<>>, "error"))
    /\ UNCHANGED <<dbChannels, dbPosts, storage, passes, env>>

\* a bootstrap that keeps the counter in the local only
BootstrapNoStore(s, k, pts) == s

\* the statement of the bootstrap that follows the full-channel fetch
BootstrapNext(r, k) == [Log(r, SetEv(k, r.pts, "bootstrap")) EXCEPT !.pc = "channel_difference"]
BootstrapStore(s, k, pts) == StorageSet(s, k, pts)

ChannelInitPts(p) ==
    /\ P(p).pc = "channel_init_pts"
    /\ LET k == PtsKey(Cur(p).username)
       IN /\ storage' = BootstrapStore(storage, k, P(p).pts)
          /\ SetPass(p, BootstrapNext(P(p), k))
    /\ UNCHANGED <<dbChannels, dbPosts, passes, env>>

\* difference.new_messages plus the messages carried by other_updates
Collect(d) ==
    LET HasMessage(u) == "message" \in DOMAIN u /\ u.message.cls # "None"
        carrying == SelectSeq(d.other_updates, HasMessage)
    IN d.new_messages \o [i \in 1..Len(carrying) |-> carrying[i].message]

\* guards that let a non-increasing counter through
AdvanceGuardGe(new, old) == new >= old
AdvanceAlways(new, old) == TRUE
AdvanceGuardNe(new, old) == new # old

\* if difference.pts > pts
AdvanceGuard(new, old) == new > old

ChannelDifference(p) ==
    /\ P(p).pc = "channel_difference"
    /\ \E d \in DifferenceAnswers :
         LET r1 == [Log(P(p), DifferenceRequest(P(p).pts)) EXCEPT !.diff = d]
         IN CASE d.kind = "error" ->
                   SetPass(p, Return(Failed(r1, "GetChannelDifferenceRequest"), <<>>, "error"))
              [] d.kind = "ChannelDifferenceEmpty" ->
                   SetPass(p, Return(r1, <<>>, "empty"))
              [] d.kind = "ChannelDifferenceTooLong" ->
                   SetPass(p, [r1 EXCEPT !.pc = "recovery_history"])
              [] d.kind = "ChannelDifference" ->
                   IF AdvanceGuard(d.pts, r1.pts)
                   THEN SetPass(p, [r1 EXCEPT !.updates = Collect(d), !.pc = "channel_advance"])
                   ELSE SetPass(p, Return(r1, Collect(d), "difference"))
    /\ UNCHANGED <<dbChannels, dbPosts, storage, passes, env>>

ChannelAdvance(p) ==
    /\ P(p).pc = "channel_advance"
    /\ LET k == PtsKey(Cur(p).username)
       IN /\ storage' = StorageSet(storage, k, P(p).diff.pts)
          /\ SetPass(p, Return(Log(P(p), SetEv(k, P(p).diff.pts, "difference")),
                               P(p).updates, "difference"))
    /\ UNCHANGED <<dbChannels, dbPosts, passes, env>>

----------------------------------------------------------------------------
(* Function._handle_too_long_state *)

RecoveryCandidates == SeqsUpTo(Msgs, MaxHist) \cup Scenarios({LongHistory})

RecoveryHistory(p) ==
    /\ P(p).pc = "recovery_history"
    /\ \/ \E held \in RecoveryCandidates :
            SetPass(p, [Log(P(p), RecoveryHistoryRequest)
                          EXCEPT !.history = ProviderHistory(RecoveryHistoryRequest, held),
                                 !.pc = "recovery_full"])
       \/ SetPass(p, Return(Failed(Log(P(p), RecoveryHistoryRequest), "GetHistoryRequest"),
                            <<>>, "error"))
    /\ UNCHANGED <<dbChannels, dbPosts, storage, passes, env>>

RecoveryGetFull(p) ==
    /\ P(p).pc = "recovery_full"
    /\ \/ \E pts \in Counters :
            SetPass(p, [Log(P(p), FullChannelEv) EXCEPT !.new_pts = pts, !.pc = "recovery_set_pts"])
       \/ SetPass(p, Return(Failed(Log(P(p), FullChannelEv), "GetFullChannelRequest"),
                            <<>>, "error"))
    /\ UNCHANGED <<dbChannels, dbPosts, storage, passes, env>>

\* a recovery that applies the regression guard of the difference branch
RecoveryStoreGuarded(s, k, new_pts) ==
    IF k \in DOMAIN s /\ new_pts <= s[k] THEN s ELSE StorageSet(s, k, new_pts)

\* await storage.set(channel_username, new_pts): no comparison with the old value
RecoveryStore(s, k, new_pts) == StorageSet(s, k, new_pts)

RecoverySetPts(p) ==
    /\ P(p).pc = "recovery_set_pts"
    /\ LET k == PtsKey(Cur(p).username)
       IN /\ storage' = RecoveryStore(storage, k, P(p).new_pts)
          /\ SetPass(p, Return(Log(P(p), SetEv(k, P(p).new_pts, "recovery")),
                               P(p).history, "too_long"))
    /\ UNCHANGED <<dbChannels, dbPosts, passes, env>>

----------------------------------------------------------------------------
(* Function.get_difference_update_chat *)

ChatGetMaxId(p) ==
    /\ P(p).pc = "chat_get_max_id"
    /\ LET k == ChatKey(Cur(p).username)
           r1 == Log(P(p), [op |-> "get", key |-> k])
       IN SetPass(p, [r1 EXCEPT !.last_max_id = IF StorageHas(k) THEN storage[k] ELSE 0,
                                !.pc = "chat_history"])
    /\ UNCHANGED <<dbChannels, dbPosts, storage, passes, env>>

\* a filter that lets the cursor's own id through
NewMessagesGe(messages, last_max_id) ==
    LET Keep(m) == IsMessage(m) /\ m.id >= last_max_id
    IN SelectSeq(messages, Keep)

\* [msg for msg in messages.messages if isinstance(msg, Message) and msg.id > last_max_id]
NewMessages(messages, last_max_id) ==
    LET Keep(m) == IsMessage(m) /\ m.id > last_max_id
    IN SelectSeq(messages, Keep)

\* list.sort(key=lambda m: m.id): a stable sort
RECURSIVE InsertById(_, _)
InsertById(s, m) ==
    IF s = <<>> THEN <<m>>
    ELSE IF s[Len(s)].id <= m.id THEN Append(s, m)
    ELSE Append(InsertById(SubSeq(s, 1, Len(s) - 1), m), s[Len(s)])

RECURSIVE SortById(_)
SortById(s) ==
    IF s = <<>> THEN <<>>
    ELSE InsertById(SortById(SubSeq(s, 1, Len(s) - 1)), s[Len(s)])

\* max(msg.id for msg in new_messages)
RECURSIVE MaxId(_)
MaxId(s) ==
    IF Len(s) = 1 THEN s[1].id
    ELSE LET rest == MaxId(Tail(s)) IN IF s[1].id > rest THEN s[1].id ELSE rest

\* the chat-poll scenario: a first page that leaves the cursor at 50, then a page
\* with ids on both sides of it, newest first
ScenarioFirstPage == <<Message(50, <<"a">>)>>
ScenarioPage ==
    <<Message(48, <<"a">>), Message(51, <<"a">>), Message(55, <<"a">>), Message(49, <<"a">>)>>

\* a chat in which one message more than a history page has accumulated above
\* the ids of MsgPool, newest first as the provider lists them; the two oldest
\* carry text
LongChat ==
    [i \in 1..(ChatHistoryLimit + 1) |->
        Message(MaxMsgId + ChatHistoryLimit + 2 - i,
                IF ChatHistoryLimit + 2 - i <= 2 THEN <<"a">> ELSE <<>>)]

ChatCandidates ==
    SeqsUpTo(Msgs, MaxHist) \cup Scenarios({ScenarioFirstPage, ScenarioPage, LongChat})

ChatHistory(p) ==
    /\ P(p).pc = "chat_history"
    /\ LET req == ChatHistoryRequest(P(p).last_max_id)
       IN \/ \E held \in ChatCandidates :
               LET messages == ProviderHistory(req, held)
                   new_messages == NewMessages(messages, P(p).last_max_id)
                   r1 == [Log(P(p), req) EXCEPT !.history = messages, !.held = held]
               IN IF new_messages # <<>>
                  THEN SetPass(p, [r1 EXCEPT !.updates = SortById(new_messages),
                                             !.current_max_id = MaxId(new_messages),
                                             !.pc = "chat_set_max_id"])
                  ELSE SetPass(p, Return(r1, new_messages, "chat"))
          \/ SetPass(p, Return(Failed(Log(P(p), req), "GetHistoryRequest"), <<>>, "error"))
    /\ UNCHANGED <<dbChannels, dbPosts, storage, passes, env>>

ChatSetMaxId(p) ==
    /\ P(p).pc = "chat_set_max_id"
    /\ LET k == ChatKey(Cur(p).username)
       IN /\ storage' = StorageSet(storage, k, P(p).current_max_id)
          /\ SetPass(p, Return(Log(P(p), SetEv(k, P(p).current_max_id, "chat")),
                               P(p).updates, "chat"))
    /\ UNCHANGED <<dbChannels, dbPosts, passes, env>>

----------------------------------------------------------------------------
(* handle_updates_for_entities: duplicate check, staging and commit *)

Range(s) == {s[i] : i \in DOMAIN s}

\* select(Post).where(message_id == id, channel_username == u) over the rows the
\* session sees: the committed ones and the ones it has added itself
Exists(rows, id, u) == \E row \in rows : row.message_id = id /\ row.channel_username = u

\* one turn of the loop after its query: a candidate the session finds stored is
\* passed over, any other becomes a Post of new_posts
Judge(new_posts, m, u, rows) ==
    IF Exists(rows, m.id, u) THEN new_posts ELSE Append(new_posts, Post(m, u))

\* new_posts at the end of the loop when every query sees the same rows: each
\* candidate is judged against the rows visible to the session, not against the
\* candidates before it
NewPosts(updates, u, rows) ==
    LET Keep(m) == IsCandidate(m) /\ ~Exists(rows, m.id, u)
        kept == SelectSeq(updates, Keep)
    IN [i \in 1..Len(kept) |-> Post(kept[i], u)]

\* await session.scalar(select(Post)...) for the next candidate: the query sees
\* the rows committed by then and the rows this session has added; after the last
\* candidate session.add_all stages new_posts.  A query that raises ends the
\* entity in the except clause, new_posts dropped
Dedup(p) ==
    /\ P(p).pc = "dedup"
    /\ \/ LET rows == BagToSet(dbPosts) \cup Range(P(p).pending)
              new_posts == Judge(P(p).new_posts, Head(P(p).todo), Cur(p).username, rows)
              r1 == [P(p) EXCEPT !.todo = Tail(@), !.new_posts = new_posts]
          IN IF r1.todo # <<>>
             THEN SetPass(p, r1)
             ELSE SetPass(p, Continue([r1 EXCEPT !.pending = @ \o new_posts],
                                      IF new_posts # <<>> THEN "staged" ELSE "nothing_new"))
       \/ SetPass(p, Continue([P(p) EXCEPT !.todo = <<>>, !.new_posts = <<>>], "exception"))
    /\ UNCHANGED <<dbChannels, dbPosts, storage, passes, env>>

SeqToBag(s) == [x \in Range(s) |-> Cardinality({i \in DOMAIN s : s[i] = x})]

\* the attributes of a session row the pass has given another value than the one
\* loaded: the columns its UPDATE sets
Dirty(c) == {a \in {"username", "title"} : c[a] # c.loaded[a]}

\* the rows of the table after the flush of the session: a row marked by
\* session.delete is removed, a dirty attribute overwrites its column, every
\* other column and every row the session does not hold keep what the table has
ApplySession(db, channels) ==
    LET Of(row) == CHOOSE i \in DOMAIN channels : channels[i].id = row.id
        Loaded(row) == \E i \in DOMAIN channels : channels[i].id = row.id
        Kept(row) == ~Loaded(row) \/ ~channels[Of(row)].deleted
        kept == SelectSeq(db, Kept)
        Column(row, a) ==
            IF Loaded(row) /\ a \in Dirty(channels[Of(row)])
            THEN channels[Of(row)][a] ELSE row[a]
    IN [i \in 1..Len(kept) |->
          [id |-> kept[i].id, username |-> Column(kept[i], "username"),
           title |-> Column(kept[i], "title")]]

Commit(p) ==
    /\ P(p).pc = "commit"
    /\ \/ /\ dbPosts' = dbPosts (+) SeqToBag(P(p).pending)
          /\ dbChannels' = ApplySession(dbChannels, P(p).channels)
          /\ SetPass(p, [P(p) EXCEPT !.pc = "idle", !.fin = "committed", !.commits = @ + 1])
       \/ /\ UNCHANGED <<dbPosts, dbChannels>>
          /\ SetPass(p, [P(p) EXCEPT !.pc = "idle", !.fin = "commit_failed",
                                     !.commits = @ + 1, !.lost = @ \o P(p).pending])
    /\ UNCHANGED <<storage, passes, env>>

----------------------------------------------------------------------------

Next ==
    \E p \in Procs :
        \/ StartPass(p)
        \/ SubGetFlag(p)
        \/ IsSubscribed(p)
        \/ SubCacheFlag(p)
        \/ JoinChannel(p)
        \/ ImportInvite(p)
        \/ InviteCacheFlag(p)
        \/ CheckInvite(p)
        \/ SessionDelete(p)
        \/ GetEntity(p)
        \/ GetDialogs(p)
        \/ CatchUp(p)
        \/ GetEntityRetry(p)
        \/ ChannelGetPts(p)
        \/ ChannelGetFull(p)
        \/ ChannelInitPts(p)
        \/ ChannelDifference(p)
        \/ ChannelAdvance(p)
        \/ RecoveryHistory(p)
        \/ RecoveryGetFull(p)
        \/ RecoverySetPts(p)
        \/ ChatGetMaxId(p)
        \/ ChatHistory(p)
        \/ ChatSetMaxId(p)
        \/ Dedup(p)
        \/ Commit(p)

Spec == Init /\ [][Next]_vars

\* one pass over a list of several entities
SpecList == InitList /\ [][Next]_vars

\* passes that may overlap
SpecOverlap == InitOverlap /\ [][Next]_vars

----------------------------------------------------------------------------
(* Vocabulary of the properties *)

Trace(p) == P(p).trace

\* the entity whose processing the locals describe
AtEntityEnd(p) == P(p).pc \in {"entity", "commit"} /\ P(p).idx > 1 /\ P(p).fin # ""
PassOver(p) == P(p).pc = "idle" /\ P(p).fin \in {"committed", "commit_failed"}
NoRow ==
    [id |-> 0, username |-> "", title |-> "", deleted |-> FALSE,
     loaded |-> [username |-> "", title |-> ""]]
Described(p) ==
    LET i == IF AtEntityEnd(p) \/ PassOver(p) THEN P(p).idx - 1 ELSE P(p).idx
    IN IF i \in DOMAIN P(p).channels THEN P(p).channels[i] ELSE NoRow

Finished(p) == AtEntityEnd(p) \/ PassOver(p)

SetsBy(p, by) == {i \in DOMAIN Trace(p) : Trace(p)[i].op = "set" /\ Trace(p)[i].by = by}
Requests(p, name) == {i \in DOMAIN Trace(p) : Trace(p)[i].op = "rpc" /\ Trace(p)[i].req = name}
Answered(p, name, answer) ==
    \E i \in Requests(p, name) : Trace(p)[i].answer = answer

Stepped(p) == pass'[p] # pass[p]

SameKey(r1, r2) ==
    r1.message_id = r2.message_id /\ r1.channel_username = r2.channel_username

----------------------------------------------------------------------------
(* C1: no two persisted messages share (entity identifier, message id).     *)
(* The statement of the claim; the duplicate check of the pass compares each *)
(* candidate with the stored rows only, so one batch carrying an id twice    *)
(* stages it twice.                                                          *)
C1_UniquePersisted ==
    \A r1, r2 \in DOMAIN dbPosts :
        SameKey(r1, r2) => r1 = r2 /\ dbPosts[r1] = 1

----------------------------------------------------------------------------
(* C2, as claimed: every write of a cursor stores a value strictly greater   *)
(* than the one stored before, whichever step writes it.                     *)
CursorWritePcs ==
    {"channel_init_pts", "channel_advance", "recovery_set_pts", "chat_set_max_id"}

WrittenKey(p) ==
    IF P(p).pc = "chat_set_max_id"
    THEN ChatKey(Described(p).username)
    ELSE PtsKey(Described(p).username)

C2_NeverWritesLowerOrEqual ==
    [][\A p \in Procs :
          (Stepped(p) /\ P(p).pc \in CursorWritePcs /\ StorageHas(WrittenKey(p)))
              => storage'[WrittenKey(p)] > storage[WrittenKey(p)]]_vars

(* C2, amended: the has-new-data and chat-poll steps write a value strictly  *)
(* greater than the stored one, bootstrap writes only where nothing is       *)
(* stored, no other step than these and the stale recovery changes a cursor, *)
(* and only the stale recovery can lower one.                                *)
C2_MonotoneExceptRecovery ==
    [][/\ \A p \in Procs :
            /\ (Stepped(p) /\ P(p).pc \in {"channel_advance", "chat_set_max_id"})
                  => /\ StorageHas(WrittenKey(p)) => storage'[WrittenKey(p)] > storage[WrittenKey(p)]
                     /\ WrittenKey(p) \in DOMAIN storage'
            /\ (Stepped(p) /\ P(p).pc = "channel_init_pts") => ~StorageHas(WrittenKey(p))
       /\ \A k \in CursorKeys :
            /\ StorageHas(k) => k \in DOMAIN storage'
            /\ (StorageHas(k) /\ storage'[k] # storage[k])
                  => \E p \in Procs : Stepped(p) /\ P(p).pc \in CursorWritePcs /\ WrittenKey(p) = k
            /\ (StorageHas(k) /\ storage'[k] < storage[k])
                  => \E p \in Procs : Stepped(p) /\ P(p).pc = "recovery_set_pts"]_vars

\* a has-new-data step has advanced a cursor that was stored before the entity began
C2_Witness ==
    \E p \in Procs :
        /\ SetsBy(p, "difference") # {}
        /\ PtsKey(Described(p).username) \in DOMAIN P(p).snap.storage
        /\ storage[PtsKey(Described(p).username)]
              > P(p).snap.storage[PtsKey(Described(p).username)]

----------------------------------------------------------------------------
(* C3, as claimed: whenever a sync step has moved the cursor for a batch,    *)
(* nothing of that batch is still waiting to be staged.                      *)
Advanced(p) ==
    SetsBy(p, "difference") \cup SetsBy(p, "recovery") \cup SetsBy(p, "chat") # {}

Visible(p) == BagToSet(dbPosts) \cup Range(P(p).pending)

C3_StagedBeforeCursorMoves ==
    \A p \in Procs :
        (P(p).pc = "dedup" /\ Advanced(p))
            => NewPosts(P(p).updates, Described(p).username, Visible(p)) = <<>>

----------------------------------------------------------------------------
(* C4, as claimed: after an unexpected failure of any provider call the      *)
(* entity is skipped and the store and the staged rows are what they were    *)
(* before the entity was processed.                                          *)
SkippedOutcomes == {"not_subscribed", "exception", "not_found", "no_updates", "deleted"}

C4_ErrorMutatesNothing ==
    \A p \in Procs :
        (AtEntityEnd(p) /\ P(p).failed # {})
            => /\ P(p).fin \in SkippedOutcomes
               /\ storage = P(p).snap.storage
               /\ P(p).pending = P(p).snap.pending

(* C4, amended: after an unexpected failure of a provider call other than    *)
(* the membership check the entity is not synchronized in that pass: nothing *)
(* is staged for it and every key stored before the entity began keeps its   *)
(* value.  What was written before the failing call stays: the cached        *)
(* subscription flag, the counter persisted by the bootstrap.                *)
C4_ErrorStagesNothing ==
    \A p \in Procs :
        (AtEntityEnd(p) /\ P(p).failed \ {"GetParticipantRequest"} # {})
            => /\ P(p).fin \in SkippedOutcomes
               /\ P(p).pending = P(p).snap.pending
               /\ \A k \in DOMAIN P(p).snap.storage :
                     StorageHas(k) /\ storage[k] = P(p).snap.storage[k]

\* the difference request failed right after the bootstrap persisted its counter
C4_Witness ==
    \E p \in Procs :
        /\ AtEntityEnd(p)
        /\ "GetChannelDifferenceRequest" \in P(p).failed
        /\ SetsBy(p, "bootstrap") # {}
        /\ storage # P(p).snap.storage

----------------------------------------------------------------------------
(* C5: when no cursor is stored for a broadcast channel, the counter of the  *)
(* full-channel fetch is in the cursor store before the difference request   *)
(* is issued, and that request carries the same counter.                     *)
\* the call took the branch `if not chat_pts`: it is at the full-channel fetch of
\* the bootstrap or has made it; the fetch of a recovery comes after a history
\* request
Bootstrapping(p) ==
    /\ P(p).via = "channel"
    /\ \/ P(p).pc = "channel_full"
       \/ \E i \in Requests(p, "GetFullChannelRequest") :
             \A j \in Requests(p, "GetHistoryRequest") : i < j

C5_BootstrapPersistedFirst ==
    \A p \in Procs :
        LET k == PtsKey(Described(p).username)
        IN /\ (P(p).pc = "channel_difference" /\ Bootstrapping(p))
                 => StorageHas(k) /\ storage[k] = P(p).pts
           /\ \A i \in Requests(p, "GetChannelDifferenceRequest") :
                 (\E j \in Requests(p, "GetFullChannelRequest") : j < i)
                     => /\ Trace(p)[i].pts = P(p).pts
                        /\ \E j \in SetsBy(p, "bootstrap") :
                              /\ j < i
                              /\ Trace(p)[j].key = k
                              /\ Trace(p)[j].val = Trace(p)[i].pts
                        /\ StorageHas(k)

\* a difference request has been issued in the pass that bootstrapped the cursor
C5_Witness ==
    \E p \in Procs :
        /\ PtsKey(Described(p).username) \notin DOMAIN P(p).snap.storage
        /\ \E i \in Requests(p, "GetChannelDifferenceRequest") :
              \E j \in Requests(p, "GetFullChannelRequest") : j < i

----------------------------------------------------------------------------
(* C6: after a has-new-data answer the stored cursor is the answer's counter *)
(* if that counter is greater than the one the request was made with, and is *)
(* untouched otherwise; the collected messages are returned either way.      *)
HasNewData(p) == P(p).sync = "difference"

C6_AdvanceIffGreater ==
    \A p \in Procs :
        HasNewData(p) =>
            LET k == PtsKey(Described(p).username)
                d == P(p).diff
                i == CHOOSE i \in Requests(p, "GetChannelDifferenceRequest") : TRUE
                sent == Trace(p)[i].pts
            IN /\ StorageHas(k)
               /\ (d.pts > sent) <=> (SetsBy(p, "difference") # {})
               /\ (d.pts > sent) => storage[k] = d.pts
               /\ ~(d.pts > sent) => storage[k] = sent
               /\ Len(P(p).updates) >= Len(d.new_messages)
               /\ SubSeq(P(p).updates, 1, Len(d.new_messages)) = d.new_messages

\* a has-new-data answer whose counter is not greater, with messages returned
C6_Witness ==
    \E p \in Procs :
        /\ HasNewData(p)
        /\ P(p).diff.pts <= P(p).pts
        /\ P(p).updates # <<>>
        /\ P(p).pc = "dedup"

----------------------------------------------------------------------------
(* C7: after a too-long answer the pass returns the answer of one plain      *)
(* history read (limit 100, no lower bound, no offset), hence at most 100    *)
(* messages, and the cursor is the freshly fetched counter whatever the old  *)
(* one was.                                                                  *)
Recovered(p) == P(p).sync = "too_long"

C7_RecoveryUnconditional ==
    \A p \in Procs :
        Recovered(p) =>
            LET k == PtsKey(Described(p).username)
                reads == Requests(p, "GetHistoryRequest")
            IN /\ Cardinality(reads) = 1
               /\ \A i \in reads :
                     /\ Trace(p)[i].min_id = 0
                     /\ Trace(p)[i].max_id = 0
                     /\ Trace(p)[i].offset_id = 0
                     /\ Trace(p)[i].add_offset = 0
                     /\ Len(P(p).updates) <= Trace(p)[i].limit
               /\ Len(P(p).updates) <= 100
               /\ P(p).updates = P(p).history
               /\ StorageHas(k) /\ storage[k] = P(p).new_pts

\* a recovery that returned a full window and lowered the cursor
C7_Witness ==
    \E p \in Procs :
        /\ Recovered(p)
        /\ Len(P(p).updates) = 100
        /\ P(p).new_pts < P(p).pts

----------------------------------------------------------------------------
(* C8: after a chat poll with stored max-id c the accepted messages are, as  *)
(* a multiset, the Message entries of the page with id > c, in ascending id  *)
(* order; the cursor is the greatest accepted id, and is not written when    *)
(* nothing is accepted.                                                      *)
Polled(p) == P(p).sync = "chat"

Count(seq, m) == Cardinality({i \in DOMAIN seq : seq[i] = m})

C8_ChatPoll ==
    \A p \in Procs :
        Polled(p) =>
            LET k == ChatKey(Described(p).username)
                c == IF k \in DOMAIN P(p).snap.storage THEN P(p).snap.storage[k] ELSE 0
                page == P(p).history
                accepted == P(p).updates
            IN /\ \A m \in Range(page) \cup Range(accepted) :
                     Count(accepted, m) = IF IsMessage(m) /\ m.id > c THEN Count(page, m) ELSE 0
               /\ \A i, j \in DOMAIN accepted : i < j => accepted[i].id <= accepted[j].id
               /\ accepted # <<>> =>
                     /\ StorageHas(k)
                     /\ \E m \in Range(accepted) : storage[k] = m.id
                     /\ \A m \in Range(accepted) : m.id <= storage[k]
               /\ accepted = <<>> =>
                     /\ SetsBy(p, "chat") = {}
                     /\ StorageHas(k) <=> k \in DOMAIN P(p).snap.storage
                     /\ StorageHas(k) => storage[k] = P(p).snap.storage[k]

\* the scenario: stored max-id 50, page 48, 51, 55, 49; accepted 51, 55; cursor 55
C8_Witness ==
    \E p \in Procs :
        /\ Polled(p)
        /\ P(p).last_max_id = 50
        /\ P(p).history = ScenarioPage
        /\ P(p).updates = <<Message(51, <<"a">>), Message(55, <<"a">>)>>
        /\ storage[ChatKey(Described(p).username)] = 55

----------------------------------------------------------------------------
(* C9: an invite check answering with a chat id rewrites the identifier of   *)
(* the entity to that id and keeps the entity; an answer without a chat id   *)
(* (ChatInvite, which the code reads as already-member) marks the entity for *)
(* deletion; a successful commit makes both durable.                         *)
InviteChecked(p) == Finished(p) /\ Requests(p, "CheckChatInviteRequest") # {}

DbRows(id) == {i \in DOMAIN dbChannels : dbChannels[i].id = id}

C9_InviteResolution ==
    \A p \in Procs :
        InviteChecked(p) =>
            LET c == Described(p)
                committed == P(p).pc = "idle" /\ P(p).fin = "committed"
            IN /\ (Answered(p, "CheckChatInviteRequest", "ChatInviteAlready")
                      \/ Answered(p, "CheckChatInviteRequest", "ChatInvitePeek"))
                     => /\ c.username = StrOfId(ResolvedChatId)
                        /\ ~c.deleted
                        /\ committed =>
                              \E i \in DbRows(c.id) :
                                  dbChannels[i].username = StrOfId(ResolvedChatId)
               /\ Answered(p, "CheckChatInviteRequest", "ChatInvite")
                     => /\ c.deleted
                        /\ committed => DbRows(c.id) = {}

\* a committed pass that rewrote the invite token to the numeric id
C9_Witness ==
    \E p \in Procs :
        /\ P(p).pc = "idle" /\ P(p).fin = "committed"
        /\ Answered(p, "CheckChatInviteRequest", "ChatInviteAlready")
        /\ \E i \in DOMAIN dbChannels : dbChannels[i].username = "12345"

----------------------------------------------------------------------------
(* C10, as claimed: an entity whose invite check reports the token expired   *)
(* leaves the monitored set in that pass.                                    *)
C10_ExpiredInviteRemoved ==
    \A p \in Procs :
        (InviteChecked(p) /\ Answered(p, "CheckChatInviteRequest", "InviteHashExpiredError"))
            => /\ Described(p).deleted
               /\ (P(p).pc = "idle" /\ P(p).fin = "committed") => DbRows(Described(p).id) = {}

----------------------------------------------------------------------------
(* C11, as claimed: on the direct-handle path and on the invite-token path   *)
(* alike, an already-a-participant answer to the join or the import makes    *)
(* ensureSubscribed succeed and caches the flag as true; an expired invite,  *)
(* a private or nonexistent entity and any other provider error make it fail *)
(* and leave the flag unwritten.  subscribe_to_channel falls through to      *)
(* `return False` on UserAlreadyParticipantError and caches nothing.         *)
FlagKey(p) == Trace(p)[1].key

FlagSets(p) == {i \in DOMAIN Trace(p) : Trace(p)[i].op = "set" /\ Trace(p)[i].key = FlagKey(p)}

SubscribeRequests == {"JoinChannelRequest", "ImportChatInviteRequest"}

SubscribeFailures == {"InviteHashExpiredError", "ChannelPrivateError", "error"}

C11_OutcomeClassification ==
    \A p \in Procs :
        Finished(p) =>
            \A name \in SubscribeRequests :
                /\ Answered(p, name, "UserAlreadyParticipantError")
                      => /\ P(p).subscribed
                         /\ StorageHas(FlagKey(p)) /\ storage[FlagKey(p)] = TRUE
                /\ (\E f \in SubscribeFailures : Answered(p, name, f))
                      => /\ ~P(p).subscribed
                         /\ FlagSets(p) = {}
                         /\ ~StorageHas(FlagKey(p))

----------------------------------------------------------------------------
(* C12: an exception raised while an entity is processed does not end the    *)
(* pass: a pass ends only through its commit attempt, and by then every      *)
(* entity of the list has been processed, whichever of them raised.          *)
Outcomes(p) == P(p).outcomes

PassEnds == {"", "no_entities", "committed", "commit_failed"}

C12_FailureIsolated ==
    \A p \in Procs :
        /\ P(p).pc = "idle" => P(p).fin \in PassEnds
        /\ P(p).pc \notin {"idle", "commit"}
              => P(p).idx \in DOMAIN P(p).channels /\ Len(Outcomes(p)) = P(p).idx - 1
        /\ (P(p).pc = "commit" \/ PassOver(p)) => Len(Outcomes(p)) = Len(P(p).channels)
        /\ PassOver(p) => P(p).commits = 1

\* the first entity raised, the second one was synchronized and the pass committed
C12_Witness ==
    \E p \in Procs :
        /\ P(p).pc = "idle" /\ P(p).fin = "committed"
        /\ Outcomes(p) = <<"exception", "staged">>
        /\ dbPosts # EmptyBag

----------------------------------------------------------------------------
(* C13: an entity for which ensureSubscribed answered false is skipped: no   *)
(* cursor key is read or written while it is processed, no cursor changes    *)
(* and nothing is staged for it.                                             *)
CursorOps(p) ==
    {i \in DOMAIN Trace(p) : Trace(p)[i].op \in {"get", "set"} /\ Trace(p)[i].key \in CursorKeys}

LastOutcome(p) == Outcomes(p)[Len(Outcomes(p))]

C13_SkippedWithoutCursorAccess ==
    \A p \in Procs :
        /\ CursorOps(p) # {} => P(p).subscribed
        /\ (Finished(p) /\ ~P(p).subscribed)
              => /\ LastOutcome(p) \in {"not_subscribed", "deleted", "exception"}
                 /\ P(p).entity = NoEntity
                 /\ P(p).pending = P(p).snap.pending
                 /\ \A k \in CursorKeys :
                       /\ StorageHas(k) <=> k \in DOMAIN P(p).snap.storage
                       /\ StorageHas(k) => storage[k] = P(p).snap.storage[k]

\* a channel with a stored counter whose join failed in a later pass
C13_Witness ==
    \E p \in Procs :
        /\ AtEntityEnd(p)
        /\ P(p).fin = "not_subscribed"
        /\ Requests(p, "JoinChannelRequest") # {}
        /\ PtsKey(Described(p).username) \in DOMAIN P(p).snap.storage

----------------------------------------------------------------------------
(* C14: the entities of a pass are processed one after another and the       *)
(* commit is issued once, after the last of them: the tables change only in  *)
(* that step, which makes the staged rows, the rewrites and the deletions of *)
(* the whole pass durable together.                                          *)
CommitStep(p) ==
    /\ P(p).pc = "commit" /\ pass'[p].pc = "idle"
    /\ P(p).commits = 0 /\ pass'[p].commits = 1
    /\ Len(Outcomes(p)) = Len(P(p).channels)

C14_SingleCommit ==
    /\ [](\A p \in Procs :
            /\ P(p).commits <= 1
            /\ P(p).pc # "idle" => P(p).commits = 0
            /\ P(p).pc \notin {"idle", "commit"} => Len(Outcomes(p)) = P(p).idx - 1)
    /\ [][/\ (dbPosts' # dbPosts \/ dbChannels' # dbChannels)
              => \E p \in Procs :
                    /\ CommitStep(p)
                    /\ dbPosts' = dbPosts (+) SeqToBag(P(p).pending)
                    /\ dbChannels' = ApplySession(dbChannels, P(p).channels)
          /\ \A p \in Procs :
                (pass'[p].commits # P(p).commits /\ pass'[p].commits # 0) => CommitStep(p)]_vars

\* one commit made the deletion of the first entity and the rows staged for
\* the second one durable
C14_Witness ==
    \E p \in Procs :
        /\ P(p).pc = "idle" /\ P(p).fin = "committed"
        /\ Outcomes(p) = <<"deleted", "staged">>
        /\ Len(dbChannels) = 1
        /\ dbPosts # EmptyBag

----------------------------------------------------------------------------
(* C15: a failed commit leaves the cursor store as the pass wrote it and     *)
(* persists none of the rows the pass staged; later passes start from the    *)
(* advanced cursors (the difference request carries the stored counter, the  *)
(* history request the stored max-id as lower bound), so a polled message    *)
(* that was staged and lost is never persisted afterwards.                   *)
CommitFails(p) == P(p).pc = "commit" /\ pass'[p].fin = "commit_failed"

Lost(p) == P(p).lost

Persisted(post) == \E row \in DOMAIN dbPosts : SameKey(row, post)

C15_CommitFailureKeepsCursors ==
    /\ [][\A p \in Procs :
              CommitFails(p)
                  => /\ storage' = storage
                     /\ dbPosts' = dbPosts /\ dbChannels' = dbChannels
                     /\ pass'[p].lost = Lost(p) \o P(p).pending]_vars
    /\ [](\A p \in Procs :
            /\ P(p).pc = "channel_difference"
                  => /\ StorageHas(PtsKey(Cur(p).username))
                     /\ storage[PtsKey(Cur(p).username)] = P(p).pts
            /\ P(p).pc = "chat_history"
                  => P(p).last_max_id = IF StorageHas(ChatKey(Cur(p).username))
                                        THEN storage[ChatKey(Cur(p).username)] ELSE 0
            /\ \A i \in Requests(p, "GetHistoryRequest") :
                  P(p).via = "chat" => Trace(p)[i].min_id = P(p).last_max_id
            /\ \A i \in Requests(p, "GetChannelDifferenceRequest") : Trace(p)[i].pts = P(p).pts
            /\ \A i \in DOMAIN Lost(p) :
                  Lost(p)[i].channel_username # DirectChannel => ~Persisted(Lost(p)[i]))

\* the pass after a failed commit polls from the advanced max-id: a message
\* staged and lost by the failed pass lies at or below the lower bound of the
\* history request, and nothing is stored
C15_Witness ==
    \E p \in Procs :
        /\ passes = 2
        /\ dbPosts = EmptyBag
        /\ P(p).via = "chat"
        /\ \E i \in Requests(p, "GetHistoryRequest") :
              \E j \in DOMAIN Lost(p) :
                  /\ Lost(p)[j].channel_username = Described(p).username
                  /\ Lost(p)[j].message_id <= Trace(p)[i].min_id
                  /\ storage[ChatKey(Described(p).username)] >= Trace(p)[i].min_id

----------------------------------------------------------------------------
(* C16, as claimed: resolve issues a lookup, refreshes the cache and retries *)
(* once only after a not-found answer, never issues more than two lookups,   *)
(* and answers none, without raising, when a lookup fails with any other     *)
(* provider error or misses twice.  safe_get_entity catches only ValueError  *)
(* around its first lookup: another error of that lookup leaves the function *)
(* as an exception.                                                          *)
Lookups(p) == Requests(p, "get_entity")

FirstLookup(p) == CHOOSE i \in Lookups(p) : \A j \in Lookups(p) : i <= j

LastLookup(p) == CHOOSE i \in Lookups(p) : \A j \in Lookups(p) : j <= i

ResolvedNone(p) == LastOutcome(p) = "not_found"

C16_ResolveNeverRaises ==
    \A p \in Procs :
        /\ Cardinality(Lookups(p)) <= 2
        /\ Cardinality(Requests(p, "get_dialogs")) <= 1
        /\ Cardinality(Requests(p, "catch_up")) <= 1
        /\ (Cardinality(Lookups(p)) = 2 \/ Requests(p, "get_dialogs") # {})
              => Trace(p)[FirstLookup(p)].answer = "ValueError"
        /\ (Finished(p) /\ Lookups(p) # {}
               /\ Trace(p)[LastLookup(p)].answer \in {"ValueError", "error"})
              => ResolvedNone(p)

----------------------------------------------------------------------------
(* C17: a subscription flag stored as true stays stored as true, and an      *)
(* ensureSubscribed call that finds it answers true without a membership     *)
(* check, a join or an invite import, and without writing the flag again.    *)
FlagTrue(s, u) == SubKey(u) \in DOMAIN s /\ s[SubKey(u)] = TRUE

SubscriptionCalls == {"GetParticipantRequest", "JoinChannelRequest", "ImportChatInviteRequest"}

FoundCached(p) ==
    /\ Trace(p) # <<>>
    /\ FlagKey(p) \in DOMAIN P(p).snap.storage
    /\ P(p).snap.storage[FlagKey(p)] = TRUE

C17_FlagWriteOnce ==
    /\ [][\A u \in Usernames : FlagTrue(storage, u) => FlagTrue(storage', u)]_vars
    /\ [](\A p \in Procs :
            FoundCached(p)
                => /\ P(p).subscribed
                   /\ \A name \in SubscriptionCalls : Requests(p, name) = {}
                   /\ FlagSets(p) = {})

\* a later pass synchronized the entity on the strength of the cached flag
C17_Witness ==
    \E p \in Procs :
        /\ passes = 2
        /\ FoundCached(p)
        /\ AtEntityEnd(p)
        /\ P(p).fin = "staged"

----------------------------------------------------------------------------
(* C18, as claimed: with a stored counter X and a has-new-data answer        *)
(* carrying Y > X, the sync returns the primary list followed by every       *)
(* message carried by the auxiliary records, the cursor becomes Y, and after *)
(* a successful commit every returned message with non-empty text that was   *)
(* not already stored is persisted.  Non-empty is read as the pass tests it, *)
(* non-empty after trimming: whitespace-only text is never to be persisted.  *)
(* A duplicate query that raises drops the batch of the entity while the     *)
(* cursor is Y already and the pass commits.                                 *)
SteadyState(p) ==
    /\ HasNewData(p)
    /\ PtsKey(Described(p).username) \in DOMAIN P(p).snap.storage
    /\ P(p).diff.pts > P(p).snap.storage[PtsKey(Described(p).username)]

\* the auxiliary records that have a message attribute holding a message
Carrying(d) ==
    {i \in DOMAIN d.other_updates :
        /\ "message" \in DOMAIN d.other_updates[i]
        /\ d.other_updates[i].message.cls # "None"}

ReturnsAllCollected(p) ==
    LET d == P(p).diff
        n == Len(d.new_messages)
    IN /\ Len(P(p).updates) = n + Cardinality(Carrying(d))
       /\ SubSeq(P(p).updates, 1, n) = d.new_messages
       /\ \A i \in Carrying(d) :
             P(p).updates[n + Cardinality({j \in Carrying(d) : j <= i})]
                 = d.other_updates[i].message

Committed(p) == P(p).pc = "idle" /\ P(p).fin = "committed"

\* C18: what the sync returns, where the cursor stands and what a successful
\* commit has persisted in the steady state
C18_SteadyStatePersisted ==
    \A p \in Procs :
        SteadyState(p) =>
            /\ ReturnsAllCollected(p)
            /\ storage[PtsKey(Described(p).username)] = P(p).diff.pts
            /\ Committed(p) =>
                  \A m \in Range(P(p).updates) :
                      (IsMessage(m) /\ Strip(MsgText(m)) # <<>>)
                          => Persisted(Post(m, Described(p).username))

----------------------------------------------------------------------------
(* C19: no staged or persisted row has an empty or whitespace-only text: a   *)
(* candidate whose text is missing, empty or made of whitespace is dropped   *)
(* and never staged, and none waits for a duplicate query.                   *)
Blank(t) == \A i \in DOMAIN t : t[i] \in Whitespace

C19_NoBlankText ==
    \A p \in Procs :
        /\ \A row \in DOMAIN dbPosts : ~Blank(row.content)
        /\ \A i \in DOMAIN P(p).pending : ~Blank(P(p).pending[i].content)
        /\ \A i \in DOMAIN Lost(p) : ~Blank(Lost(p)[i].content)
        /\ \A i \in DOMAIN P(p).todo : ~Blank(MsgText(P(p).todo[i]))
        /\ \A i \in DOMAIN P(p).new_posts : ~Blank(P(p).new_posts[i].content)

\* a committed batch that carried a whitespace-only message next to a text one
C19_Witness ==
    \E p \in Procs :
        /\ Committed(p)
        /\ LastOutcome(p) = "staged"
        /\ \E m \in Range(P(p).updates) :
              /\ IsMessage(m) /\ m.message = <<" ">>
              /\ ~Persisted(Post(m, Described(p).username))
        /\ \E m \in Range(P(p).updates) :
              IsMessage(m) /\ Persisted(Post(m, Described(p).username))

----------------------------------------------------------------------------
(* C20, as claimed: when a chat poll met no provider error and its pass      *)
(* committed, every message the chat held with text and an id above the old  *)
(* cursor is persisted: the cursor never moves past a message that was not   *)
(* fetched.  The history request returns the newest page only, and the       *)
(* cursor moves to its maximum.                                              *)
Held(p) == P(p).held

PolledCleanly(p) ==
    /\ Polled(p)
    /\ P(p).failed = {}
    /\ Committed(p)
    /\ LastOutcome(p) \in {"staged", "nothing_new", "no_updates"}

C20_NoMessageSkipped ==
    \A p \in Procs :
        PolledCleanly(p) =>
            \A m \in Range(Held(p)) :
                (IsMessage(m) /\ ~Blank(MsgText(m)) /\ m.id > P(p).last_max_id)
                    => /\ Persisted(Post(m, Described(p).username))
                       /\ m \in Range(P(p).history)

----------------------------------------------------------------------------
(* C21, as claimed: an entity whose identifier is the numeric id an invite   *)
(* token was rewritten to is handled as a direct handle on later passes: no  *)
(* invite import and no invite check is issued for it, it is not marked for  *)
(* deletion, and the cursor keys it touches and the rows staged for it carry *)
(* the rewritten identifier.  The id starts with a digit, neither "@" nor    *)
(* "-", so the pass takes the invite branch for it again.                    *)
RewrittenId == StrOfId(ResolvedChatId)

\* the entity entered its processing under the rewritten identifier
EnteredRewritten(p) == Trace(p) # <<>> /\ FlagKey(p) = SubKey(RewrittenId)

KeyedByRewritten(p) ==
    /\ \A i \in CursorOps(p) : Trace(p)[i].key \in {PtsKey(RewrittenId), ChatKey(RewrittenId)}
    /\ \A i \in DOMAIN P(p).pending :
          i > Len(P(p).snap.pending) => P(p).pending[i].channel_username = RewrittenId

C21_RewrittenStaysDirect ==
    \A p \in Procs :
        EnteredRewritten(p) =>
            /\ Requests(p, "ImportChatInviteRequest") = {}
            /\ Requests(p, "CheckChatInviteRequest") = {}
            /\ ~Described(p).deleted
            /\ KeyedByRewritten(p)

----------------------------------------------------------------------------
(* C22, as claimed: also when passes overlap, the stored cursor of an entity *)
(* is never lowered; the stale recovery, which writes without comparing, is  *)
(* left aside.  The guard of a pass compares the new value with the value    *)
(* that pass read, not with the one in the store when it writes.             *)
Lowered(k) == StorageHas(k) /\ k \in DOMAIN storage' /\ storage'[k] < storage[k]

Writes(p, k) == Stepped(p) /\ P(p).pc \in CursorWritePcs /\ WrittenKey(p) = k

C22_NeverLoweredUnderOverlap ==
    [][\A k \in CursorKeys :
          Lowered(k) => \E p \in Procs : Writes(p, k) /\ P(p).pc = "recovery_set_pts"]_vars

(* C22, amended: a guarded write stores a value strictly greater than the    *)
(* value the writing pass holds from its own read, and the bootstrap writes  *)
(* where that pass read nothing.  A cursor is lowered by such a write only   *)
(* when the store no longer holds what the pass read, that is when another   *)
(* pass has written the key in between; cursors are never removed.           *)
\* the value the pass compares with; 0 stands for a key it found absent
OwnRead(p) ==
    CASE P(p).pc = "chat_set_max_id" -> P(p).last_max_id
      [] P(p).pc = "channel_advance" -> P(p).pts
      [] OTHER -> 0

C22_GuardComparesOwnRead ==
    [][/\ \A p \in Procs :
            /\ (Stepped(p) /\ P(p).pc = "channel_advance")
                  => /\ storage'[WrittenKey(p)] = P(p).diff.pts
                     /\ P(p).diff.pts > OwnRead(p)
            /\ (Stepped(p) /\ P(p).pc = "chat_set_max_id")
                  => /\ storage'[WrittenKey(p)] = P(p).current_max_id
                     /\ P(p).current_max_id > OwnRead(p)
       /\ \A k \in CursorKeys :
            /\ StorageHas(k) => k \in DOMAIN storage'
            /\ Lowered(k)
                  => \E p \in Procs :
                        /\ Writes(p, k)
                        /\ P(p).pc # "recovery_set_pts" => storage[k] # OwnRead(p)]_vars

\* two overlapping polls of one chat: the pass that accepted the smaller id
\* wrote last, and the store holds less than the other pass stored
C22_Witness ==
    \E p, q \in Procs :
        /\ p # q
        /\ env.overlap
        /\ \E i \in SetsBy(p, "chat") :
              \E j \in SetsBy(q, "chat") :
                  /\ Trace(p)[i].key = Trace(q)[j].key
                  /\ Trace(p)[i].val < Trace(q)[j].val
                  /\ storage[Trace(p)[i].key] = Trace(p)[i].val

----------------------------------------------------------------------------
(* C23: a resolved entity is synchronized by one strategy: the channel       *)
(* difference sync if and only if it is a broadcast channel that is not a    *)
(* megagroup, the chat poll otherwise.  The two use disjoint cursor keys:    *)
(* the chat poll touches no channel counter, the difference sync no chat     *)
(* max-id.                                                                   *)
ChannelSyncPcs ==
    {"channel_get_pts", "channel_full", "channel_init_pts", "channel_difference",
     "channel_advance", "recovery_history", "recovery_full", "recovery_set_pts"}

ChatSyncPcs == {"chat_get_max_id", "chat_history", "chat_set_max_id"}

PtsKeys == {PtsKey(u) : u \in Usernames}

ChatKeys == {ChatKey(u) : u \in Usernames}

IsBroadcastChannel(e) ==
    /\ "broadcast" \in DOMAIN e /\ e.broadcast
    /\ ~("megagroup" \in DOMAIN e /\ e.megagroup)

Unchanged(p, keys) ==
    \A k \in keys :
        /\ StorageHas(k) <=> k \in DOMAIN P(p).snap.storage
        /\ StorageHas(k) => storage[k] = P(p).snap.storage[k]

C23_OneStrategy ==
    /\ PtsKeys \cap ChatKeys = {}
    /\ \A p \in Procs :
          /\ P(p).entity # NoEntity
                => /\ P(p).via \in {"channel", "chat"}
                   /\ P(p).via = "channel" <=> IsBroadcastChannel(P(p).entity)
          /\ P(p).entity = NoEntity => P(p).via = "" \/ P(p).pc = "entity"
          /\ P(p).pc \in ChannelSyncPcs => P(p).via = "channel"
          /\ P(p).pc \in ChatSyncPcs => P(p).via = "chat"
          /\ P(p).via = "channel"
                => /\ \A i \in CursorOps(p) : Trace(p)[i].key = PtsKey(Described(p).username)
                   /\ Unchanged(p, ChatKeys)
          /\ P(p).via = "chat"
                => /\ \A i \in CursorOps(p) : Trace(p)[i].key = ChatKey(Described(p).username)
                   /\ Unchanged(p, PtsKeys)
                   /\ Requests(p, "GetChannelDifferenceRequest") = {}
                   /\ Requests(p, "GetFullChannelRequest") = {}

\* a megagroup, a Channel object that is not a broadcast channel, was polled
\* as a chat: its max-id is stored and no counter is
C23_Witness ==
    \E p \in Procs :
        /\ P(p).entity = Channel(2, 7, FALSE, TRUE)
        /\ Polled(p)
        /\ SetsBy(p, "chat") # {}
        /\ StorageHas(ChatKey(Described(p).username))
        /\ ~StorageHas(PtsKey(Described(p).username))

====
